---- MODULE Spec2Model ----
(***************************************************************************)
(* Model of the resume parser (src/parser_engine.py), its command-line     *)
(* wrapper (src/cli_parser.py) and its HTTP wrapper (src/app.py).          *)
(*                                                                         *)
(* Representation of text.  A Python str is a sequence of atoms; an atom   *)
(* is a TLA+ string holding the characters it stands for.  The whitespace  *)
(* atoms are " " and "\n", the punctuation atom is ":", every other atom   *)
(* is a word.  Inputs are built from the lines of LineKinds, in which two  *)
(* word atoms are always separated by a space, colon or newline atom, so   *)
(* every regular expression of the source matches inside one atom (or, for *)
(* the heading pattern, on one stripped line) and its effect is given by a *)
(* table over the atoms.  Character counts are Len of the atom.            *)
(*                                                                         *)
(* A Python None-or-value is a set: {} for None, {v} for the value v.      *)
(***************************************************************************)
EXTENDS Integers, Sequences, FiniteSets, TLC

\* ------------------------------------------------------------------ bounds
MaxLines == 4        \* lines of an input text of Spec
MaxExpLines == 5     \* lines of an input text of SpecExp
MaxProjChunks == 7   \* lines of an input text of SpecProj
MaxSkills == 13      \* matched programming skills of a record of SpecScore
MaxExp == 4          \* experience records of a record of SpecScore
MaxEdu == 3          \* education records of a record of SpecScore
MaxProj == 3         \* project records of a record of SpecScore

\* ------------------------------------------------------------ str library
Max(a, b) == IF a >= b THEN a ELSE b
Min(a, b) == IF a <= b THEN a ELSE b

NL == "\n"
SP == " "
COLON == ":"

IsSpace(a) == a \in {SP, NL}

\* number of characters of a str
RECURSIVE StrLen(_)
StrLen(s) == IF s = <<>> THEN 0 ELSE Len(Head(s)) + StrLen(Tail(s))

RECURSIVE lstrip(_)
lstrip(s) == IF s # <<>> /\ IsSpace(Head(s)) THEN lstrip(Tail(s)) ELSE s

RECURSIVE rstrip(_)
rstrip(s) ==
    IF s # <<>> /\ IsSpace(s[Len(s)]) THEN rstrip(SubSeq(s, 1, Len(s) - 1)) ELSE s

\* str.strip()
strip(s) == rstrip(lstrip(s))

\* str.split("\n"): always at least one line
RECURSIVE split(_)
split(s) ==
    IF \A i \in 1..Len(s) : s[i] # NL
    THEN <<s>>
    ELSE LET i == CHOOSE k \in 1..Len(s) :
                     s[k] = NL /\ \A j \in 1..(k - 1) : s[j] # NL
         IN  <<SubSeq(s, 1, i - 1)>> \o split(SubSeq(s, i + 1, Len(s)))

\* "\n".join(lines)
RECURSIVE join(_)
join(lines) ==
    IF lines = <<>> THEN <<>>
    ELSE IF Len(lines) = 1 THEN lines[1]
    ELSE lines[1] \o <<NL>> \o join(Tail(lines))

\* " ".join(lines)
RECURSIVE join_sp(_)
join_sp(lines) ==
    IF lines = <<>> THEN <<>>
    ELSE IF Len(lines) = 1 THEN lines[1]
    ELSE lines[1] \o <<SP>> \o join_sp(Tail(lines))

\* str.split(): the whitespace-separated words, each a str
RECURSIVE words(_)
words(s) ==
    LET t == lstrip(s)
    IN  IF t = <<>> THEN <<>>
        ELSE LET n == IF \E k \in 1..Len(t) : IsSpace(t[k])
                      THEN (CHOOSE k \in 1..Len(t) :
                                IsSpace(t[k]) /\ \A j \in 1..(k - 1) : ~IsSpace(t[j])) - 1
                      ELSE Len(t)
             IN  <<SubSeq(t, 1, n)>> \o words(SubSeq(t, n + 1, Len(t)))

\* index of the first atom after the run of newlines that starts at i
RECURSIVE RunEnd(_, _)
RunEnd(s, i) == IF i <= Len(s) /\ s[i] = NL THEN RunEnd(s, i + 1) ELSE i

\* re.split(r"\n{2,}", s): the separators are the maximal runs of two or
\* more newlines; a leading or trailing separator leaves an empty block
RECURSIVE re_split_blank(_)
re_split_blank(s) ==
    IF \A i \in 1..(Len(s) - 1) : ~(s[i] = NL /\ s[i + 1] = NL)
    THEN <<s>>
    ELSE LET i == CHOOSE k \in 1..(Len(s) - 1) :
                     /\ s[k] = NL /\ s[k + 1] = NL
                     /\ \A j \in 1..(k - 1) : ~(s[j] = NL /\ s[j + 1] = NL)
         IN  <<SubSeq(s, 1, i - 1)>> \o re_split_blank(SubSeq(s, RunEnd(s, i), Len(s)))

\* [l.strip() for l in s.split("\n") if l.strip()]
StrippedLines(s) ==
    LET ls == split(s)
        st == [i \in 1..Len(ls) |-> strip(ls[i])]
    IN  SelectSeq(st, LAMBDA l : l # <<>>)

\* s[:n] on characters: the atoms that fit whole, and the number of
\* characters kept of the atom that is cut (0 when none is cut)
RECURSIVE WholePrefix(_, _)
WholePrefix(s, n) ==
    IF s = <<>> \/ Len(Head(s)) > n THEN <<>>
    ELSE <<Head(s)>> \o WholePrefix(Tail(s), n - Len(Head(s)))

Slice(s, n) ==
    LET w == WholePrefix(s, n)
    IN  [whole |-> w,
         part  |-> IF Len(w) = Len(s) THEN 0 ELSE n - StrLen(w)]

SliceLen(x) == StrLen(x.whole) + x.part

\* flatten a sequence of sequences
RECURSIVE Concat(_)
Concat(ss) == IF ss = <<>> THEN <<>> ELSE Head(ss) \o Concat(Tail(ss))

\* ------------------------------------------------------------- vocabulary
LOREM == "xxxxxxxxxxxxxxxxxxxxxxxxxxxxxxxxxxxxxxxxxxxxxxxxxxxxxxxxxxxxxxxxxxxxxxxxxxxxxxxxxxxxxxxxxxxxxxxxxxxxxxxxxxxxxxxxxxxxxxxxxxxxxxxxxxxxxxxxxxxxxxxxxxxxxx"

WordAtoms ==
    {"Education", "Experience", "Projects", "Summary", "B.Tech", "2020",
     "Acme", "Python", "Docker", "Java", "Rust", "Ruby", "Go", "Swift",
     "Scala", "Perl", "Bash", "John", "Smith", "john@example.com",
     "9876543210", "linkedin.com/in/js", "github.com/js", LOREM}

Atoms == WordAtoms \cup {SP, NL, COLON}

\* str.lower() of one atom (re.IGNORECASE compares these)
Lower(a) ==
    CASE a = "Education"  -> "education"
      [] a = "Experience" -> "experience"
      [] a = "Projects"   -> "projects"
      [] a = "Summary"    -> "summary"
      [] a = "B.Tech"     -> "b.tech"
      [] a = "Acme"       -> "acme"
      [] a = "Python"     -> "python"
      [] a = "Docker"     -> "docker"
      [] a = "Java"       -> "java"
      [] a = "Rust"       -> "rust"
      [] a = "Ruby"       -> "ruby"
      [] a = "Go"         -> "go"
      [] a = "Swift"      -> "swift"
      [] a = "Scala"      -> "scala"
      [] a = "Perl"       -> "perl"
      [] a = "Bash"       -> "bash"
      [] a = "John"       -> "john"
      [] a = "Smith"      -> "smith"
      [] OTHER            -> a

\* the maximal runs of word characters (\w+) of a lower-cased atom: a
\* pattern \bkeyword\b for a keyword of word characters matches the atom
\* exactly when the keyword is one of them
WordTokens(a) ==
    CASE a = "b.tech"              -> {"b", "tech"}
      [] a = "john@example.com"    -> {"john", "example", "com"}
      [] a = "linkedin.com/in/js"  -> {"linkedin", "com", "in", "js"}
      [] a = "github.com/js"       -> {"github", "com", "js"}
      [] a \in {SP, NL, COLON}     -> {}
      [] OTHER                     -> {a}

\* str.isupper() of the first character of an atom
UpperInitial(a) ==
    a \in {"Education", "Experience", "Projects", "Summary", "B.Tech", "Acme",
           "Python", "Docker", "Java", "Rust", "Ruby", "Go", "Swift", "Scala",
           "Perl", "Bash", "John", "Smith"}

\* ---------------------------------------------------------- pattern tables
\* SKILLS_DB, in the insertion order of the dict
SKILLS_DB_init ==
    <<
      [cat |-> "programming", skills |-> <<
          "python", "java", "javascript", "typescript", "c++", "c#", "c",
          "go", "rust", "ruby", "php", "swift", "kotlin", "scala", "r",
          "matlab", "perl", "bash", "shell", "powershell", "dart",
          "elixir", "haskell", "lua", "assembly"
        >>],
      [cat |-> "web", skills |-> <<
          "html", "css", "react", "angular", "vue", "node.js", "express",
          "django", "flask", "fastapi", "spring", "asp.net", "next.js",
          "nuxt.js", "svelte", "jquery", "bootstrap", "tailwind",
          "webpack", "graphql", "rest api", "soap"
        >>],
      [cat |-> "data", skills |-> <<
          "sql", "mysql", "postgresql", "mongodb", "redis",
          "elasticsearch", "cassandra", "dynamodb", "oracle", "sqlite",
          "firebase", "pandas", "numpy", "scipy", "matplotlib", "seaborn",
          "plotly", "tableau", "power bi", "excel", "spark", "hadoop",
          "hive", "kafka"
        >>],
      [cat |-> "ml_ai", skills |-> <<
          "machine learning", "deep learning", "neural networks", "nlp",
          "computer vision", "tensorflow", "pytorch", "keras",
          "scikit-learn", "xgboost", "lightgbm", "hugging face",
          "transformers", "llm", "bert", "gpt", "reinforcement learning",
          "opencv", "yolo"
        >>],
      [cat |-> "cloud_devops", skills |-> <<
          "aws", "azure", "gcp", "docker", "kubernetes", "terraform",
          "ansible", "jenkins", "git", "github", "gitlab", "ci/cd",
          "linux", "nginx", "apache", "microservices", "serverless",
          "lambda", "ec2", "s3"
        >>],
      [cat |-> "soft", skills |-> <<
          "leadership", "communication", "teamwork", "problem solving",
          "agile", "scrum", "project management", "critical thinking",
          "collaboration", "time management", "presentation", "mentoring"
        >>]
    >>

\* ALL_SKILLS = [s for skills in SKILLS_DB.values() for s in skills]
ALL_SKILLS_init ==
    Concat([i \in 1..Len(SKILLS_DB_init) |-> SKILLS_DB_init[i].skills])

\* SECTION_HEADERS, in the insertion order of the dict; a pattern is the set
\* of its alternatives, each a lower-case str
SECTION_HEADERS_init ==
    <<
      [sec |-> "education", pattern |-> {
          <<"education">>, <<"academic">>, <<"qualification">>,
          <<"degree">>, <<"university">>, <<"college">>}],
      [sec |-> "experience", pattern |-> {
          <<"experience">>, <<"work", " ", "history">>, <<"employment">>,
          <<"career">>, <<"professional", " ", "background">>,
          <<"internship">>}],
      [sec |-> "skills", pattern |-> {
          <<"skills">>, <<"technical", " ", "skills">>, <<"competencies">>,
          <<"technologies">>, <<"tools">>, <<"expertise">>,
          <<"proficiencies">>}],
      [sec |-> "projects", pattern |-> {
          <<"projects">>, <<"portfolio">>, <<"works">>, <<"assignments">>,
          <<"case", " ", "studies">>}],
      [sec |-> "certifications", pattern |-> {
          <<"certif">>, <<"licenses">>, <<"credentials">>,
          <<"accreditation">>}],
      [sec |-> "summary", pattern |-> {
          <<"summary">>, <<"objective">>, <<"profile">>, <<"about">>,
          <<"overview">>, <<"introduction">>}],
      [sec |-> "achievements", pattern |-> {
          <<"achievements">>, <<"awards">>, <<"honors">>,
          <<"accomplishments">>, <<"recognition">>}],
      [sec |-> "languages", pattern |-> {
          <<"languages">>, <<"language", " ", "proficiency">>}],
      [sec |-> "publications", pattern |-> {
          <<"publications">>, <<"papers">>, <<"research">>, <<"articles">>}],
      [sec |-> "references", pattern |-> {
          <<"references">>, <<"referees">>}]
    >>

\* DEGREE_PATTERNS, in list order; a pattern is the set of lower-case atoms
\* of the vocabulary in which re.search finds it
DEGREE_PATTERNS_init ==
    <<
      {"b.tech"},    \* b\.?tech|bachelor of technology
      {},    \* b\.?e\.?|bachelor of engineering
      {},    \* b\.?sc\.?|bachelor of science
      {"bash"},    \* b\.?a\.?|bachelor of arts
      {"github.com/js"},    \* b\.?com|bachelor of commerce
      {},    \* m\.?tech|master of technology
      {},    \* m\.?sc\.?|master of science
      {},    \* m\.?b\.?a|master of business
      {},    \* m\.?c\.?a|master of computer
      {},    \* ph\.?d|doctor of philosophy
      {}     \* diploma|associate
    >>

\* DATE_PATTERN.findall on one atom: the matches, left to right
DATE_PATTERN_init ==
    [a \in Atoms |->
        CASE a = "2020" -> <<"2020">>
          [] a = "9876543210" -> <<"9876", "5432">>
          [] OTHER -> <<>>]

\* str.title() of the keywords of at most three characters
title ==
    "c++" :> "C++" @@ "c#" :> "C#" @@ "c" :> "C" @@ "go" :> "Go" @@ "php" :> "Php" @@
    "r" :> "R" @@ "lua" :> "Lua" @@ "css" :> "Css" @@ "vue" :> "Vue" @@
    "sql" :> "Sql" @@ "nlp" :> "Nlp" @@ "llm" :> "Llm" @@ "gpt" :> "Gpt" @@
    "aws" :> "Aws" @@ "gcp" :> "Gcp" @@ "git" :> "Git" @@ "ec2" :> "Ec2" @@
    "s3" :> "S3"

\* str.capitalize() of every keyword
capitalize ==
    "python" :> "Python" @@ "java" :> "Java" @@ "javascript" :> "Javascript" @@
    "typescript" :> "Typescript" @@ "c++" :> "C++" @@ "c#" :> "C#" @@ "c" :> "C" @@
    "go" :> "Go" @@ "rust" :> "Rust" @@ "ruby" :> "Ruby" @@ "php" :> "Php" @@
    "swift" :> "Swift" @@ "kotlin" :> "Kotlin" @@ "scala" :> "Scala" @@
    "r" :> "R" @@ "matlab" :> "Matlab" @@ "perl" :> "Perl" @@ "bash" :> "Bash" @@
    "shell" :> "Shell" @@ "powershell" :> "Powershell" @@ "dart" :> "Dart" @@
    "elixir" :> "Elixir" @@ "haskell" :> "Haskell" @@ "lua" :> "Lua" @@
    "assembly" :> "Assembly" @@ "html" :> "Html" @@ "css" :> "Css" @@
    "react" :> "React" @@ "angular" :> "Angular" @@ "vue" :> "Vue" @@
    "node.js" :> "Node.js" @@ "express" :> "Express" @@ "django" :> "Django" @@
    "flask" :> "Flask" @@ "fastapi" :> "Fastapi" @@ "spring" :> "Spring" @@
    "asp.net" :> "Asp.net" @@ "next.js" :> "Next.js" @@ "nuxt.js" :> "Nuxt.js" @@
    "svelte" :> "Svelte" @@ "jquery" :> "Jquery" @@ "bootstrap" :> "Bootstrap" @@
    "tailwind" :> "Tailwind" @@ "webpack" :> "Webpack" @@
    "graphql" :> "Graphql" @@ "rest api" :> "Rest api" @@ "soap" :> "Soap" @@
    "sql" :> "Sql" @@ "mysql" :> "Mysql" @@ "postgresql" :> "Postgresql" @@
    "mongodb" :> "Mongodb" @@ "redis" :> "Redis" @@
    "elasticsearch" :> "Elasticsearch" @@ "cassandra" :> "Cassandra" @@
    "dynamodb" :> "Dynamodb" @@ "oracle" :> "Oracle" @@ "sqlite" :> "Sqlite" @@
    "firebase" :> "Firebase" @@ "pandas" :> "Pandas" @@ "numpy" :> "Numpy" @@
    "scipy" :> "Scipy" @@ "matplotlib" :> "Matplotlib" @@
    "seaborn" :> "Seaborn" @@ "plotly" :> "Plotly" @@ "tableau" :> "Tableau" @@
    "power bi" :> "Power bi" @@ "excel" :> "Excel" @@ "spark" :> "Spark" @@
    "hadoop" :> "Hadoop" @@ "hive" :> "Hive" @@ "kafka" :> "Kafka" @@
    "machine learning" :> "Machine learning" @@
    "deep learning" :> "Deep learning" @@
    "neural networks" :> "Neural networks" @@ "nlp" :> "Nlp" @@
    "computer vision" :> "Computer vision" @@ "tensorflow" :> "Tensorflow" @@
    "pytorch" :> "Pytorch" @@ "keras" :> "Keras" @@
    "scikit-learn" :> "Scikit-learn" @@ "xgboost" :> "Xgboost" @@
    "lightgbm" :> "Lightgbm" @@ "hugging face" :> "Hugging face" @@
    "transformers" :> "Transformers" @@ "llm" :> "Llm" @@ "bert" :> "Bert" @@
    "gpt" :> "Gpt" @@ "reinforcement learning" :> "Reinforcement learning" @@
    "opencv" :> "Opencv" @@ "yolo" :> "Yolo" @@ "aws" :> "Aws" @@
    "azure" :> "Azure" @@ "gcp" :> "Gcp" @@ "docker" :> "Docker" @@
    "kubernetes" :> "Kubernetes" @@ "terraform" :> "Terraform" @@
    "ansible" :> "Ansible" @@ "jenkins" :> "Jenkins" @@ "git" :> "Git" @@
    "github" :> "Github" @@ "gitlab" :> "Gitlab" @@ "ci/cd" :> "Ci/cd" @@
    "linux" :> "Linux" @@ "nginx" :> "Nginx" @@ "apache" :> "Apache" @@
    "microservices" :> "Microservices" @@ "serverless" :> "Serverless" @@
    "lambda" :> "Lambda" @@ "ec2" :> "Ec2" @@ "s3" :> "S3" @@
    "leadership" :> "Leadership" @@ "communication" :> "Communication" @@
    "teamwork" :> "Teamwork" @@ "problem solving" :> "Problem solving" @@
    "agile" :> "Agile" @@ "scrum" :> "Scrum" @@
    "project management" :> "Project management" @@
    "critical thinking" :> "Critical thinking" @@
    "collaboration" :> "Collaboration" @@
    "time management" :> "Time management" @@
    "presentation" :> "Presentation" @@ "mentoring" :> "Mentoring"

\* ------------------------------------------------------------------ state
VARIABLES
    SKILLS_DB, ALL_SKILLS, SECTION_HEADERS, DEGREE_PATTERNS, DATE_PATTERN,
    NLP_SUPPORT, PDF_SUPPORT, DOCX_SUPPORT,
    clock,      \* datetime.now()
    text,       \* the input of the call under check
    pc,         \* position of the single caller
    parsed,     \* what the call returned
    rec,        \* the record passed to calculate_score
    calls,      \* the concurrent callers of parse_text: their local state
    files,      \* the file system: the content of every file that exists
    cli,        \* the run of cli_parser.parse_path
    reqs        \* the requests to /parse: their local state

tables == <<SKILLS_DB, ALL_SKILLS, SECTION_HEADERS, DEGREE_PATTERNS, DATE_PATTERN>>
support == <<NLP_SUPPORT, PDF_SUPPORT, DOCX_SUPPORT>>
single == <<text, pc, parsed, rec>>
wrappers == <<files, cli, reqs>>

\* the module-level data after import
TablesInit ==
    /\ SKILLS_DB = SKILLS_DB_init
    /\ ALL_SKILLS = ALL_SKILLS_init
    /\ SECTION_HEADERS = SECTION_HEADERS_init
    /\ DEGREE_PATTERNS = DEGREE_PATTERNS_init
    /\ DATE_PATTERN = DATE_PATTERN_init

\* ------------------------------------------------------- extractor helpers
None == {}
Some(v) == {v}

lower(s) == [i \in 1..Len(s) |-> Lower(s[i])]

\* the first atom of s that is in the set A, or None
FirstIn(s, A) ==
    IF \E i \in 1..Len(s) : s[i] \in A
    THEN Some(s[CHOOSE i \in 1..Len(s) : s[i] \in A /\ \A j \in 1..(i - 1) : s[j] \notin A])
    ELSE None

\* atoms holding a match of [a-zA-Z0-9._%+\-]+@[a-zA-Z0-9.\-]+\.[a-zA-Z]{2,}
EmailAtoms == {"john@example.com"}

extract_email(t) == FirstIn(t, EmailAtoms)

\* atoms holding a match of each of the three phone patterns, in list order
PhonePatterns == << {"9876543210"}, {}, {"9876543210"} >>

RECURSIVE PhoneLoop(_, _)
PhoneLoop(t, p) ==
    IF p > Len(PhonePatterns) THEN None
    ELSE IF FirstIn(t, PhonePatterns[p]) # None THEN FirstIn(t, PhonePatterns[p])
    ELSE PhoneLoop(t, p + 1)

extract_phone(t) == PhoneLoop(t, 1)

\* atoms matching linkedin\.com/in/[\w\-]+ and github\.com/[\w\-]+
LinkedinAtoms == {"linkedin.com/in/js"}
GithubAtoms == {"github.com/js"}

extract_linkedin(t) ==
    IF FirstIn(t, LinkedinAtoms) = None THEN None
    ELSE Some(<<"https://", CHOOSE m \in FirstIn(t, LinkedinAtoms) : TRUE>>)

extract_github(t) ==
    IF FirstIn(t, GithubAtoms) = None THEN None
    ELSE Some(<<"https://", CHOOSE m \in FirstIn(t, GithubAtoms) : TRUE>>)

\* atoms in which the ignore pattern of extract_name is found
IgnoreAtoms ==
    {"john@example.com", "9876543210", "linkedin.com/in/js", "github.com/js"}

\* nlp(...).ents with label PERSON: the recognizer is a fixed function of
\* its input; here it tags the runs of given-name and family-name atoms
PersonAtoms == {"John", "Smith"}

RECURSIVE PersonRun(_)
PersonRun(s) ==
    IF s = <<>> \/ Head(s) \notin PersonAtoms THEN <<>>
    ELSE IF Len(s) >= 3 /\ s[2] = SP /\ s[3] \in PersonAtoms
         THEN <<s[1], SP>> \o PersonRun(SubSeq(s, 3, Len(s)))
         ELSE <<s[1]>>

nlp_person(s) ==
    IF \E i \in 1..Len(s) : s[i] \in PersonAtoms
    THEN Some(PersonRun(SubSeq(s,
             CHOOSE i \in 1..Len(s) :
                 s[i] \in PersonAtoms /\ \A j \in 1..(i - 1) : s[j] \notin PersonAtoms,
             Len(s))))
    ELSE None

NameLine(line) ==
    /\ Len(words(line)) > 1
    /\ Len(words(line)) <= 5
    /\ \A k \in 1..Len(line) : line[k] \notin IgnoreAtoms
    /\ \A k \in 1..Len(words(line)) : UpperInitial(words(line)[k][1])

extract_name(t) ==
    LET ents  == IF NLP_SUPPORT THEN nlp_person(Slice(t, 500).whole) ELSE None
        lines == StrippedLines(t)
        first == SubSeq(lines, 1, Min(6, Len(lines)))
    IN  IF ents # None THEN ents
        ELSE IF \E i \in 1..Len(first) : NameLine(first[i])
        THEN Some(first[CHOOSE i \in 1..Len(first) :
                      NameLine(first[i]) /\ \A j \in 1..(i - 1) : ~NameLine(first[j])])
        ELSE None

\* the word tokens of a str, compared case-insensitively
word_tokens(s) == UNION {WordTokens(Lower(s[i])) : i \in 1..Len(s)}

\* re.search(r"\b" + re.escape(skill) + r"\b", s), s given by its tokens
skill_search(skill, tokens) == skill \in tokens

display(skill) == IF Len(skill) <= 3 THEN title[skill] ELSE capitalize[skill]

\* the dict of the categories with a hit, in category order
extract_skills(t) ==
    LET text_lower == word_tokens(lower(t))
        found == [i \in 1..Len(SKILLS_DB) |->
                    LET hits == SelectSeq(SKILLS_DB[i].skills,
                                          LAMBDA skill : skill_search(skill, text_lower))
                    IN  [cat |-> SKILLS_DB[i].cat,
                         found |-> [k \in 1..Len(hits) |-> display(hits[k])]]]
    IN  SelectSeq(found, LAMBDA r : r.found # <<>>)

\* re.match(r"^" + pattern + r"[\s:]*$", stripped, re.IGNORECASE)
header_match(pattern, stripped) ==
    \E alt \in pattern :
        /\ Len(stripped) >= Len(alt)
        /\ \A i \in 1..Len(alt) : Lower(stripped[i]) = alt[i]
        /\ \A i \in (Len(alt) + 1)..Len(stripped) : stripped[i] \in {SP, NL, COLON}

\* the first section whose pattern matches, or None
matched_section(stripped) ==
    IF \E i \in 1..Len(SECTION_HEADERS) : header_match(SECTION_HEADERS[i].pattern, stripped)
    THEN Some(SECTION_HEADERS[
             CHOOSE i \in 1..Len(SECTION_HEADERS) :
                 /\ header_match(SECTION_HEADERS[i].pattern, stripped)
                 /\ \A j \in 1..(i - 1) :
                        ~header_match(SECTION_HEADERS[j].pattern, stripped)].sec)
    ELSE None

\* a dict of sections: its keys in insertion order, and its values
EmptyDict == [keys |-> <<>>, val |-> <<>>]

HasKey(d, k) == \E i \in 1..Len(d.keys) : d.keys[i] = k

KeyIndex(d, k) == CHOOSE i \in 1..Len(d.keys) : d.keys[i] = k

\* d[k] = v: a key already present keeps its place and loses its old value
DictSet(d, k, v) ==
    IF HasKey(d, k)
    THEN [d EXCEPT !.val[KeyIndex(d, k)] = v]
    ELSE [keys |-> Append(d.keys, k), val |-> Append(d.val, v)]

\* d.get(k, default)
DictGet(d, k, default) == IF HasKey(d, k) THEN d.val[KeyIndex(d, k)] ELSE default

RECURSIVE sections_loop(_, _, _, _)
sections_loop(lines, sections, current, buffer) ==
    IF lines = <<>>
    THEN DictSet(sections, current, strip(join(buffer)))
    ELSE LET m == matched_section(strip(Head(lines)))
         IN  IF m # None
             THEN sections_loop(Tail(lines),
                                DictSet(sections, current, strip(join(buffer))),
                                CHOOSE sec \in m : TRUE, <<>>)
             ELSE sections_loop(Tail(lines), sections, current,
                                Append(buffer, Head(lines)))

extract_sections(t) == sections_loop(split(t), EmptyDict, "header", <<>>)

\* DATE_PATTERN.findall(s)
findall_dates(s) == Concat([i \in 1..Len(s) |-> DATE_PATTERN[s[i]]])

\* any(re.search(deg, line, re.IGNORECASE) for deg in DEGREE_PATTERNS)
degree_line(line) ==
    \E d \in 1..Len(DEGREE_PATTERNS) :
        \E k \in 1..Len(line) : Lower(line[k]) \in DEGREE_PATTERNS[d]

extract_education(t) ==
    LET lines == StrippedLines(t)
        n     == Len(lines)
        entry(i) == [degree    |-> lines[i],
                   institution |-> IF i + 1 <= n THEN lines[i + 1] ELSE <<>>,
                   dates       |-> findall_dates(
                                       join_sp(SubSeq(lines, Max(1, i - 1), Min(n, i + 2))))]
        hit   == SelectSeq([i \in 1..n |-> i], LAMBDA i : degree_line(lines[i]))
    IN  [k \in 1..Len(hit) |-> entry(hit[k])]

experience_record(block) ==
    LET lines == StrippedLines(block)
    IN  [title       |-> lines[1],
         company     |-> IF Len(lines) > 1 THEN lines[2] ELSE <<>>,
         dates       |-> findall_dates(block),
         description |-> IF Len(lines) > 2 THEN join(SubSeq(lines, 3, Len(lines)))
                         ELSE <<>>]

\* the bug of keeping the blocks that hold no date
extract_experience_no_date_filter(t) ==
    LET blocks == re_split_blank(t)
        kept   == SelectSeq(blocks,
                      LAMBDA block : /\ strip(block) # <<>>
                                     /\ StrippedLines(block) # <<>>)
    IN  [k \in 1..Len(kept) |-> experience_record(kept[k])]

extract_experience(t) ==
    LET blocks == re_split_blank(t)
        kept   == SelectSeq(blocks,
                      LAMBDA block : /\ strip(block) # <<>>
                                     /\ findall_dates(block) # <<>>
                                     /\ StrippedLines(block) # <<>>)
    IN  [k \in 1..Len(kept) |-> experience_record(kept[k])]

project_record(block) ==
    LET lines == StrippedLines(block)
        desc  == join(Tail(lines))
        toks  == word_tokens(desc)
        techs == SelectSeq(ALL_SKILLS, LAMBDA skill : skill_search(skill, toks))
    IN  [name         |-> lines[1],
         description  |-> Slice(desc, 300),
         technologies |-> [k \in 1..Min(8, Len(techs)) |-> capitalize[techs[k]]]]

\* the bug of returning every project record
extract_projects_no_cap(t) ==
    LET blocks  == re_split_blank(t)
        kept    == SelectSeq(blocks, LAMBDA block : StrippedLines(block) # <<>>)
    IN  [k \in 1..Len(kept) |-> project_record(kept[k])]

extract_projects(t) ==
    LET blocks  == re_split_blank(t)
        kept    == SelectSeq(blocks, LAMBDA block : StrippedLines(block) # <<>>)
        results == [k \in 1..Len(kept) |-> project_record(kept[k])]
    IN  SubSeq(results, 1, Min(5, Len(results)))

\* A Python number: its value in tenths, and whether it is a float.
PyInt(n) == [t10 |-> 10 * n, float |-> FALSE]

\* w * 0.d for an int w and a one-digit decimal fraction 0.d
MulFrac(w, d) == [t10 |-> w * d, float |-> TRUE]

Add(x, y) == [t10 |-> x.t10 + y.t10, float |-> x.float \/ y.float]

\* min(x, y): the first of the two when they compare equal
PyMin(x, y) == IF y.t10 < x.t10 THEN y ELSE x

\* round(x): the nearest int, a tie going to the even one
round(x) ==
    LET q == x.t10 \div 10
        r == x.t10 % 10
    IN  PyInt(IF r < 5 THEN q
            ELSE IF r > 5 THEN q + 1
            ELSE IF q % 2 = 0 THEN q ELSE q + 1)

IsInt(x) == ~x.float /\ x.t10 % 10 = 0
IntVal(x) == x.t10 \div 10

\* sum(len(v) for v in skills.values())
RECURSIVE skills_flat(_)
skills_flat(skills) ==
    IF skills = <<>> THEN 0 ELSE Len(Head(skills).found) + skills_flat(Tail(skills))

weights ==
    [contact |-> 20, summary |-> 10, skills |-> 25,
     experience |-> 25, education |-> 15, projects |-> 5]

max_score == 100

\* the bug of adding the summary weight whenever the key is present
calculate_score_summary_key(p) ==
    LET contact == p.contact
        s0 == PyInt(0)
        s1 == IF contact.email # None THEN Add(s0, MulFrac(weights.contact, 4)) ELSE s0
        s2 == IF contact.phone # None THEN Add(s1, MulFrac(weights.contact, 3)) ELSE s1
        s3 == IF contact.linkedin # None THEN Add(s2, MulFrac(weights.contact, 3)) ELSE s2
        s4 == Add(s3, PyInt(weights.summary))
        s5 == Add(s4, PyInt(Min(weights.skills, skills_flat(p.skills) * 2)))
        s6 == Add(s5, PyInt(Min(weights.experience, Len(p.experience) * 8)))
        s7 == Add(s6, PyInt(Min(weights.education, Len(p.education) * 7)))
        s8 == Add(s7, PyInt(Min(weights.projects, Len(p.projects) * 2)))
    IN  round(PyMin(s8, PyInt(max_score)))

\* the bug of returning the accumulated score without round()
calculate_score_no_round(p) ==
    LET contact == p.contact
        s0 == PyInt(0)
        s1 == IF contact.email # None THEN Add(s0, MulFrac(weights.contact, 4)) ELSE s0
        s2 == IF contact.phone # None THEN Add(s1, MulFrac(weights.contact, 3)) ELSE s1
        s3 == IF contact.linkedin # None THEN Add(s2, MulFrac(weights.contact, 3)) ELSE s2
        s4 == IF p.summary # <<>> THEN Add(s3, PyInt(weights.summary)) ELSE s3
        s5 == Add(s4, PyInt(Min(weights.skills, skills_flat(p.skills) * 2)))
        s6 == Add(s5, PyInt(Min(weights.experience, Len(p.experience) * 8)))
        s7 == Add(s6, PyInt(Min(weights.education, Len(p.education) * 7)))
        s8 == Add(s7, PyInt(Min(weights.projects, Len(p.projects) * 2)))
    IN  PyMin(s8, PyInt(max_score))

\* the bug of leaving out the cap of the experience contribution
calculate_score_no_cap(p) ==
    LET contact == p.contact
        s0 == PyInt(0)
        s1 == IF contact.email # None THEN Add(s0, MulFrac(weights.contact, 4)) ELSE s0
        s2 == IF contact.phone # None THEN Add(s1, MulFrac(weights.contact, 3)) ELSE s1
        s3 == IF contact.linkedin # None THEN Add(s2, MulFrac(weights.contact, 3)) ELSE s2
        s4 == IF p.summary # <<>> THEN Add(s3, PyInt(weights.summary)) ELSE s3
        s5 == Add(s4, PyInt(Min(weights.skills, skills_flat(p.skills) * 2)))
        s6 == Add(s5, PyInt(Len(p.experience) * 8))
        s7 == Add(s6, PyInt(Min(weights.education, Len(p.education) * 7)))
        s8 == Add(s7, PyInt(Min(weights.projects, Len(p.projects) * 2)))
    IN  round(PyMin(s8, PyInt(max_score)))

calculate_score(p) ==
    LET contact == p.contact
        s0 == PyInt(0)
        s1 == IF contact.email # None THEN Add(s0, MulFrac(weights.contact, 4)) ELSE s0
        s2 == IF contact.phone # None THEN Add(s1, MulFrac(weights.contact, 3)) ELSE s1
        s3 == IF contact.linkedin # None THEN Add(s2, MulFrac(weights.contact, 3)) ELSE s2
        s4 == IF p.summary # <<>> THEN Add(s3, PyInt(weights.summary)) ELSE s3
        s5 == Add(s4, PyInt(Min(weights.skills, skills_flat(p.skills) * 2)))
        s6 == Add(s5, PyInt(Min(weights.experience, Len(p.experience) * 8)))
        s7 == Add(s6, PyInt(Min(weights.education, Len(p.education) * 7)))
        s8 == Add(s7, PyInt(Min(weights.projects, Len(p.projects) * 2)))
    IN  round(PyMin(s8, PyInt(max_score)))

\* the bug of scanning the whole text when there is no experience section
resolve_experience_whole_text(exp_text, t) ==
    IF exp_text # <<>> THEN extract_experience(exp_text) ELSE extract_experience(t)

\* extract_experience(exp_text) if exp_text else []
resolve_experience(exp_text, t) ==
    IF exp_text # <<>> THEN extract_experience(exp_text) ELSE <<>>

\* extract_education(edu_text) if edu_text else extract_education(text)
resolve_education(edu_text, t) ==
    IF edu_text # <<>> THEN extract_education(edu_text) ELSE extract_education(t)

\* extract_projects(proj_text) if proj_text else []
resolve_projects(proj_text, t) ==
    IF proj_text # <<>> THEN extract_projects(proj_text) ELSE <<>>

\* ResumeParser.parse_text(text), called when datetime.now() is `now`
parse_text(t, now) ==
    LET sections    == extract_sections(t)
        skills_text == DictGet(sections, "skills", <<>>) \o <<NL>> \o t
        exp_text    == DictGet(sections, "experience", <<>>)
        edu_text    == DictGet(sections, "education", <<>>)
        proj_text   == DictGet(sections, "projects", <<>>)
        p == [meta |-> [parsed_at |-> now, word_count |-> Len(words(t))],
              contact |-> [name     |-> extract_name(t),
                           email    |-> extract_email(t),
                           phone    |-> extract_phone(t),
                           linkedin |-> extract_linkedin(t),
                           github   |-> extract_github(t)],
              summary        |-> DictGet(sections, "summary", <<>>),
              skills         |-> extract_skills(skills_text),
              experience     |-> resolve_experience(exp_text, t),
              education      |-> resolve_education(edu_text, t),
              projects       |-> resolve_projects(proj_text, t),
              certifications |-> DictGet(sections, "certifications", <<>>),
              languages      |-> DictGet(sections, "languages", <<>>),
              achievements   |-> DictGet(sections, "achievements", <<>>),
              raw_sections   |-> [keys |-> sections.keys,
                                  val  |-> [i \in 1..Len(sections.val) |->
                                               Slice(sections.val[i], 500)]]]
    IN  [meta           |-> p.meta,
         contact        |-> p.contact,
         summary        |-> p.summary,
         skills         |-> p.skills,
         experience     |-> p.experience,
         education      |-> p.education,
         projects       |-> p.projects,
         certifications |-> p.certifications,
         languages      |-> p.languages,
         achievements   |-> p.achievements,
         raw_sections   |-> p.raw_sections,
         score          |-> calculate_score(p),
         skill_count    |-> skills_flat(p.skills)]

\* the callers of the concurrent specification
Procs == {1, 2}

IdleCall ==
    [pc |-> "idle", text |-> <<>>, sections |-> EmptyDict, meta |-> None,
     contact |-> None, blocks |-> None, result |-> None]

NoCalls == calls = [p \in Procs |-> IdleCall]

NoWrappers == files = <<>> /\ cli = None /\ reqs = None

\* ------------------------------------------- Spec: one call of parse_text
\* the lines an input text is made of
LineKinds ==
    { <<>>,
      <<"Education">>,
      <<"Experience", COLON>>,
      <<"Projects">>,
      <<"Summary">>,
      <<"B.Tech", SP, "Python", SP, "2020">>,
      <<"John", SP, "Smith">>,
      <<"john@example.com", SP, "9876543210", SP, "linkedin.com/in/js", SP,
        "github.com/js">> }

NumLines(t) == Len(split(t))

Init ==
    /\ TablesInit
    /\ NLP_SUPPORT \in BOOLEAN
    /\ PDF_SUPPORT = FALSE
    /\ DOCX_SUPPORT = FALSE
    /\ clock = 0
    /\ text \in LineKinds
    /\ pc = "input"
    /\ parsed = None
    /\ rec = None
    /\ NoCalls /\ NoWrappers

\* the caller extends the text it is about to pass by one line
TypeLine(l) ==
    /\ pc = "input"
    /\ NumLines(text) < MaxLines
    /\ text' = text \o <<NL>> \o l
    /\ UNCHANGED <<tables, support, clock, pc, parsed, rec, calls, wrappers>>

ParseText ==
    /\ pc = "input"
    /\ parsed' = parse_text(text, clock)
    /\ pc' = "done"
    /\ UNCHANGED <<tables, support, clock, text, rec, calls, wrappers>>

vars == <<tables, support, clock, text, pc, parsed, rec, calls, files, cli, reqs>>

Next ==
    \/ \E l \in LineKinds : TypeLine(l)
    \/ ParseText

Spec == Init /\ [][Next]_vars

\* C1: parse_text is defined on every input text (the call returns), and
\* the score of the record it returns is an int between 0 and 100.
C1_ScoreIsIntInRange ==
    LET r == IF pc = "done" THEN parsed ELSE parse_text(text, clock)
    IN  /\ IsInt(r.score)
        /\ IntVal(r.score) >= 0
        /\ IntVal(r.score) <= 100

\* a call returned a record that scores on contact, summary and a section
C1_Witness ==
    /\ pc = "done"
    /\ parsed.contact.email # None
    /\ parsed.summary # <<>>
    /\ IntVal(parsed.score) >= 30

\* C4: education falls back to the whole text when its section is absent or
\* empty; experience and projects are empty when theirs is absent or empty;
\* a section that is not empty is the only text its extractor sees.
C4_FallbackPolicy ==
    pc = "done" =>
        LET sections == extract_sections(text)
            exp  == DictGet(sections, "experience", <<>>)
            edu  == DictGet(sections, "education", <<>>)
            proj == DictGet(sections, "projects", <<>>)
        IN  /\ edu = <<>> => parsed.education = extract_education(text)
            /\ edu # <<>> => parsed.education = extract_education(edu)
            /\ exp = <<>> => parsed.experience = <<>>
            /\ exp # <<>> => parsed.experience = extract_experience(exp)
            /\ proj = <<>> => parsed.projects = <<>>
            /\ proj # <<>> => parsed.projects = extract_projects(proj)

\* no education and no experience section, a degree line and a dated block
\* in the text: education is found, experience is not
C4_Witness ==
    /\ pc = "done"
    /\ ~HasKey(extract_sections(text), "education")
    /\ ~HasKey(extract_sections(text), "experience")
    /\ extract_experience(text) # <<>>
    /\ parsed.education # <<>>
    /\ parsed.experience = <<>>

\* C8: the empty string parses to null contact fields, no skills, no
\* experience, education or projects, skill_count 0 and score 0.
C8_EmptyInput ==
    (pc = "done" /\ text = <<>>) =>
        /\ parsed.contact = [name |-> None, email |-> None, phone |-> None,
                             linkedin |-> None, github |-> None]
        /\ parsed.skills = <<>>
        /\ parsed.experience = <<>>
        /\ parsed.education = <<>>
        /\ parsed.projects = <<>>
        /\ parsed.skill_count = 0
        /\ parsed.score = PyInt(0)

C8_Witness == pc = "done" /\ text = <<>>

\* ---------------------------------------------------------------- C2
ContentLines(lines) ==
    SelectSeq(lines, LAMBDA l : strip(l) # <<>> /\ matched_section(strip(l)) = None)

\* C2 (section completeness), read in the way most favourable to the code:
\* the heading lines, which the splitter consumes, and the blank lines, which
\* strip() removes at the ends of a block, are not counted; every other line
\* of the input appears in the blocks exactly once and in the original
\* order, the blocks taken in the insertion order of the sections.
C2_SectionCompleteness ==
    pc = "done" =>
        LET blocks == parsed.raw_sections.val
        IN  /\ \A i \in 1..Len(blocks) : blocks[i].part = 0
            /\ ContentLines(split(text)) =
                   Concat([i \in 1..Len(blocks) |-> ContentLines(split(blocks[i].whole))])

\* ------------------------------- SpecExp: one call of extract_experience
ExpLineKinds == { <<>>, <<SP>>, <<"Acme">>, <<"Acme", SP, "2020">> }

InitExp ==
    /\ TablesInit
    /\ NLP_SUPPORT = FALSE
    /\ PDF_SUPPORT = FALSE
    /\ DOCX_SUPPORT = FALSE
    /\ clock = 0
    /\ text \in ExpLineKinds
    /\ pc = "input"
    /\ parsed = None
    /\ rec = None
    /\ NoCalls /\ NoWrappers

TypeExpLine(l) ==
    /\ pc = "input"
    /\ NumLines(text) < MaxExpLines
    /\ text' = text \o <<NL>> \o l
    /\ UNCHANGED <<tables, support, clock, pc, parsed, rec, calls, wrappers>>

ExtractExperience ==
    /\ pc = "input"
    /\ parsed' = extract_experience(text)
    /\ pc' = "done"
    /\ UNCHANGED <<tables, support, clock, text, rec, calls, wrappers>>

NextExp ==
    \/ \E l \in ExpLineKinds : TypeExpLine(l)
    \/ ExtractExperience

SpecExp == InitExp /\ [][NextExp]_vars

\* the runs of lines between the empty lines of a text, the empty runs and
\* the runs of whitespace-only lines left out
RECURSIVE LineGroups(_, _)
LineGroups(lines, cur) ==
    IF lines = <<>> THEN <<cur>>
    ELSE IF Head(lines) = <<>> THEN <<cur>> \o LineGroups(Tail(lines), <<>>)
    ELSE LineGroups(Tail(lines), Append(cur, Head(lines)))

NonBlankGroups(t) ==
    SelectSeq(LineGroups(split(t), <<>>),
              LAMBDA g : \E i \in 1..Len(g) : strip(g[i]) # <<>>)

HasDate(g) ==
    \E i \in 1..Len(g) : \E k \in 1..Len(g[i]) : DATE_PATTERN[g[i][k]] # <<>>

FirstNonBlank(g) ==
    strip(g[CHOOSE i \in 1..Len(g) :
                strip(g[i]) # <<>> /\ \A j \in 1..(i - 1) : strip(g[j]) = <<>>])

\* C5: the records of extract_experience are, in order, the blocks between
\* blank lines that hold a date match, one record for each; a block without
\* a date match gives no record, and no record has an empty dates list.
C5_DateIsHardFilter ==
    pc = "done" =>
        LET dated == SelectSeq(NonBlankGroups(text), HasDate)
        IN  /\ Len(parsed) = Len(dated)
            /\ \A k \in 1..Len(parsed) :
                  /\ parsed[k].dates # <<>>
                  /\ parsed[k].dates = findall_dates(Concat(dated[k]))
                  /\ parsed[k].title = FirstNonBlank(dated[k])

\* two dated blocks gave two records and a block without a date gave none
C5_Witness ==
    /\ pc = "done"
    /\ Len(parsed) = 2
    /\ Len(NonBlankGroups(text)) = 3

\* --------------------------------- SpecProj: one call of extract_projects
BigLine ==
    <<LOREM, SP, LOREM, SP, "Python", SP, "Java", SP, "Rust", SP, "Ruby", SP,
      "Go", SP, "Swift", SP, "Scala", SP, "Perl", SP, "Bash", SP, "Docker">>

InitProj ==
    /\ TablesInit
    /\ NLP_SUPPORT = FALSE
    /\ PDF_SUPPORT = FALSE
    /\ DOCX_SUPPORT = FALSE
    /\ clock = 0
    /\ text \in { <<>>, <<"Acme">> }
    /\ pc = "input"
    /\ parsed = None
    /\ rec = None
    /\ NoCalls /\ NoWrappers

\* the caller starts a new paragraph after a blank line
NewBlock(l) ==
    /\ pc = "input"
    /\ Len(SelectSeq(split(text), LAMBDA x : x # <<>>)) < MaxProjChunks
    /\ text' = text \o <<NL, NL>> \o l
    /\ UNCHANGED <<tables, support, clock, pc, parsed, rec, calls, wrappers>>

\* the caller adds a line to the last paragraph
SameBlock(l) ==
    /\ pc = "input"
    /\ Len(SelectSeq(split(text), LAMBDA x : x # <<>>)) < MaxProjChunks
    /\ text' = text \o <<NL>> \o l
    /\ UNCHANGED <<tables, support, clock, pc, parsed, rec, calls, wrappers>>

ExtractProjects ==
    /\ pc = "input"
    /\ parsed' = extract_projects(text)
    /\ pc' = "done"
    /\ UNCHANGED <<tables, support, clock, text, rec, calls, wrappers>>

NextProj ==
    \/ \E l \in { <<"Acme">>, <<SP>> } : NewBlock(l)
    \/ \E l \in { <<"Acme">>, BigLine } : SameBlock(l)
    \/ ExtractProjects

SpecProj == InitProj /\ [][NextProj]_vars

RestLines(g) ==
    LET ne == SelectSeq(g, LAMBDA l : strip(l) # <<>>)
    IN  [i \in 1..(Len(ne) - 1) |-> strip(ne[i + 1])]

\* the keywords, in table order, found in the lines after the first
Matched(g) ==
    LET toks == UNION {word_tokens(RestLines(g)[i]) : i \in 1..Len(RestLines(g))}
    IN  SelectSeq(ALL_SKILLS, LAMBDA skill : skill \in toks)

\* C9: extract_projects returns the records of the first five non-empty
\* blocks, in block order; a record's name is the first non-empty line of
\* its block, its description has at most 300 characters, and its
\* technologies are the first eight matched keywords in keyword-table order.
C9_ProjectCaps ==
    pc = "done" =>
        LET groups == NonBlankGroups(text)
        IN  /\ Len(parsed) <= 5
            /\ Len(parsed) = Min(5, Len(groups))
            /\ \A k \in 1..Len(parsed) :
                  LET m == Matched(groups[k])
                  IN  /\ parsed[k].name = FirstNonBlank(groups[k])
                      /\ SliceLen(parsed[k].description) <= 300
                      /\ parsed[k].description = Slice(join(RestLines(groups[k])), 300)
                      /\ Len(parsed[k].technologies) <= 8
                      /\ parsed[k].technologies =
                             [i \in 1..Min(8, Len(m)) |-> capitalize[m[i]]]

\* six blocks gave five records, one of them with a description cut at 300
\* characters and a technologies list cut at eight keywords
C9_Witness ==
    /\ pc = "done"
    /\ Len(NonBlankGroups(text)) > 5
    /\ Len(parsed) = 5
    /\ \E k \in 1..5 :
          /\ parsed[k].description.part > 0
          /\ Len(parsed[k].technologies) = 8
          /\ Len(Matched(NonBlankGroups(text)[k])) > 8

\* --------------------------------- SpecScore: one call of calculate_score
Rep(x, n) == [i \in 1..n |-> x]

\* the skills dict with the first n programming and the first k soft
\* keywords matched
SkillsOf(n, k) ==
    LET prog == [cat |-> "programming",
                 found |-> [i \in 1..n |-> display(SKILLS_DB_init[1].skills[i])]]
        soft == [cat |-> "soft",
                 found |-> [i \in 1..k |-> display(SKILLS_DB_init[6].skills[i])]]
    IN  (IF n > 0 THEN <<prog>> ELSE <<>>) \o (IF k > 0 THEN <<soft>> ELSE <<>>)

AnExperience ==
    [title |-> <<"Acme">>, company |-> <<>>, dates |-> <<"2020">>, description |-> <<>>]
AnEducation == [degree |-> <<"B.Tech">>, institution |-> <<>>, dates |-> <<>>]
AProject ==
    [name |-> <<"Acme">>, description |-> Slice(<<>>, 300), technologies |-> <<>>]

ScoreRecords ==
    { [contact    |-> [name |-> n, email |-> e, phone |-> ph, linkedin |-> li,
                       github |-> gh],
       summary    |-> su,
       skills     |-> SkillsOf(ns, nk),
       experience |-> Rep(AnExperience, nx),
       education  |-> Rep(AnEducation, nd),
       projects   |-> Rep(AProject, np)] :
         n  \in {None, Some(<<"John", SP, "Smith">>)},
         e  \in {None, Some("john@example.com")},
         ph \in {None, Some("9876543210")},
         li \in {None, Some(<<"https://", "linkedin.com/in/js">>)},
         gh \in {None, Some(<<"https://", "github.com/js">>)},
         su \in {<<>>, <<"Acme">>},
         ns \in 0..MaxSkills, nk \in 0..1,
         nx \in 0..MaxExp, nd \in 0..MaxEdu, np \in 0..MaxProj }

InitScore ==
    /\ TablesInit
    /\ NLP_SUPPORT = FALSE
    /\ PDF_SUPPORT = FALSE
    /\ DOCX_SUPPORT = FALSE
    /\ clock = 0
    /\ text = <<>>
    /\ pc = "input"
    /\ parsed = None
    /\ rec \in ScoreRecords
    /\ NoCalls /\ NoWrappers

CalculateScore ==
    /\ pc = "input"
    /\ parsed' = calculate_score(rec)
    /\ pc' = "done"
    /\ UNCHANGED <<tables, support, clock, text, rec, calls, wrappers>>

NextScore == CalculateScore

SpecScore == InitScore /\ [][NextScore]_vars

\* C3: the score is the sum of the six capped contributions, and does not
\* depend on the name or the github field.
C3_ScoreIsCappedSum ==
    pc = "done" =>
        parsed = PyInt(
            (IF rec.contact.email # None THEN 8 ELSE 0)
          + (IF rec.contact.phone # None THEN 6 ELSE 0)
          + (IF rec.contact.linkedin # None THEN 6 ELSE 0)
          + (IF rec.summary # <<>> THEN 10 ELSE 0)
          + Min(25, 2 * skills_flat(rec.skills))
          + Min(25, 8 * Len(rec.experience))
          + Min(15, 7 * Len(rec.education))
          + Min(5, 2 * Len(rec.projects)))

\* a record that reaches every cap was scored 100
C3_Witness ==
    /\ pc = "done"
    /\ skills_flat(rec.skills) * 2 > 25
    /\ Len(rec.experience) * 8 > 25
    /\ Len(rec.education) * 7 > 15
    /\ Len(rec.projects) * 2 > 5
    /\ rec.contact.email # None /\ rec.contact.phone # None
    /\ rec.contact.linkedin # None /\ rec.summary # <<>>
    /\ rec.contact.name = None /\ rec.contact.github = None
    /\ parsed = PyInt(100)

\* ------------------- SpecConc: two callers of parse_text, step by step
MaxClock == 2

ConcTexts ==
    { <<>>,
      <<"Experience", COLON, NL, "B.Tech", SP, "Python", SP, "2020">>,
      <<"John", SP, "Smith", NL, "john@example.com", SP, "9876543210", NL,
        "Summary", NL, "B.Tech", SP, "Python", SP, "2020">> }

InitConc ==
    /\ TablesInit
    /\ NLP_SUPPORT \in BOOLEAN
    /\ PDF_SUPPORT = FALSE
    /\ DOCX_SUPPORT = FALSE
    /\ clock = 0
    /\ text = <<>>
    /\ pc = "input"
    /\ parsed = None
    /\ rec = None
    /\ NoCalls /\ NoWrappers

\* time passes
Tick ==
    /\ clock < MaxClock
    /\ clock' = clock + 1
    /\ UNCHANGED <<tables, support, single, calls, wrappers>>

\* a caller enters parse_text(t)
Call(p, t) ==
    /\ calls[p].pc = "idle"
    /\ calls' = [calls EXCEPT ![p] = [IdleCall EXCEPT !.pc = "sections", !.text = t]]
    /\ UNCHANGED <<tables, support, clock, single, wrappers>>

\* sections = extract_sections(text)
StepSections(p) ==
    /\ calls[p].pc = "sections"
    /\ calls' = [calls EXCEPT ![p].sections = extract_sections(calls[p].text),
                              ![p].pc = "meta"]
    /\ UNCHANGED <<tables, support, clock, single, wrappers>>

\* "meta": datetime.now() and the word count
StepMeta(p) ==
    /\ calls[p].pc = "meta"
    /\ calls' = [calls EXCEPT ![p].meta = [parsed_at |-> clock,
                                           word_count |-> Len(words(calls[p].text))],
                              ![p].pc = "contact"]
    /\ UNCHANGED <<tables, support, clock, single, wrappers>>

\* "contact": the five field extractors over the whole text
StepContact(p) ==
    /\ calls[p].pc = "contact"
    /\ calls' = [calls EXCEPT ![p].contact =
                                  [name     |-> extract_name(calls[p].text),
                                   email    |-> extract_email(calls[p].text),
                                   phone    |-> extract_phone(calls[p].text),
                                   linkedin |-> extract_linkedin(calls[p].text),
                                   github   |-> extract_github(calls[p].text)],
                              ![p].pc = "blocks"]
    /\ UNCHANGED <<tables, support, clock, single, wrappers>>

BlocksOf(c) ==
    [skills     |-> extract_skills(DictGet(c.sections, "skills", <<>>) \o <<NL>> \o c.text),
     experience |-> resolve_experience(DictGet(c.sections, "experience", <<>>), c.text),
     education  |-> resolve_education(DictGet(c.sections, "education", <<>>), c.text),
     projects   |-> resolve_projects(DictGet(c.sections, "projects", <<>>), c.text)]

\* the bug of collecting the hits in the lists of SKILLS_DB itself
StepBlocks_shared_lists(p) ==
    /\ calls[p].pc = "blocks"
    /\ calls' = [calls EXCEPT ![p].blocks = BlocksOf(calls[p]), ![p].pc = "score"]
    /\ SKILLS_DB' =
          [i \in 1..Len(SKILLS_DB) |->
              [SKILLS_DB[i] EXCEPT !.skills =
                  LET hits == SelectSeq(@, LAMBDA skill :
                                  skill_search(skill, word_tokens(lower(calls[p].text))))
                  IN  @ \o [k \in 1..Len(hits) |-> display(hits[k])]]]
    /\ UNCHANGED <<ALL_SKILLS, SECTION_HEADERS, DEGREE_PATTERNS, DATE_PATTERN,
                   support, clock, single, wrappers>>

\* "skills", "experience", "education", "projects": the block extractors
StepBlocks(p) ==
    /\ calls[p].pc = "blocks"
    /\ calls' = [calls EXCEPT ![p].blocks = BlocksOf(calls[p]), ![p].pc = "score"]
    /\ UNCHANGED <<tables, support, clock, single, wrappers>>

ResultOf(c) ==
    LET sofar == [contact |-> c.contact,
                  summary |-> DictGet(c.sections, "summary", <<>>),
                  skills |-> c.blocks.skills,
                  experience |-> c.blocks.experience,
                  education |-> c.blocks.education,
                  projects |-> c.blocks.projects]
    IN  [meta           |-> c.meta,
         contact        |-> c.contact,
         summary        |-> sofar.summary,
         skills         |-> sofar.skills,
         experience     |-> sofar.experience,
         education      |-> sofar.education,
         projects       |-> sofar.projects,
         certifications |-> DictGet(c.sections, "certifications", <<>>),
         languages      |-> DictGet(c.sections, "languages", <<>>),
         achievements   |-> DictGet(c.sections, "achievements", <<>>),
         raw_sections   |-> [keys |-> c.sections.keys,
                             val  |-> [i \in 1..Len(c.sections.val) |->
                                          Slice(c.sections.val[i], 500)]],
         score          |-> calculate_score(sofar),
         skill_count    |-> skills_flat(sofar.skills)]

\* the score, the skill count, and the return
StepScore(p) ==
    /\ calls[p].pc = "score"
    /\ calls' = [calls EXCEPT ![p].result = ResultOf(calls[p]), ![p].pc = "done"]
    /\ UNCHANGED <<tables, support, clock, single, wrappers>>

NextConc ==
    \/ Tick
    \/ \E p \in Procs : \E t \in ConcTexts : Call(p, t)
    \/ \E p \in Procs : StepSections(p)
    \/ \E p \in Procs : StepMeta(p)
    \/ \E p \in Procs : StepContact(p)
    \/ \E p \in Procs : StepBlocks(p)
    \/ \E p \in Procs : StepScore(p)

SpecConc == InitConc /\ [][NextConc]_vars

\* a record without its timestamp
SansTimestamp(r) == [r EXCEPT !.meta.parsed_at = 0]

\* C7: two calls on the same text return the same record but for
\* meta.parsed_at, however their steps interleave, and the pattern tables
\* keep the value they had after import.
C7_PureAndIsolated ==
    /\ SKILLS_DB = SKILLS_DB_init
    /\ ALL_SKILLS = ALL_SKILLS_init
    /\ SECTION_HEADERS = SECTION_HEADERS_init
    /\ DEGREE_PATTERNS = DEGREE_PATTERNS_init
    /\ DATE_PATTERN = DATE_PATTERN_init
    /\ \A p \in Procs :
          calls[p].pc = "done" =>
              SansTimestamp(calls[p].result) =
                  SansTimestamp(parse_text(calls[p].text, 0))
    /\ \A p, q \in Procs :
          (calls[p].pc = "done" /\ calls[q].pc = "done"
              /\ calls[p].text = calls[q].text) =>
              SansTimestamp(calls[p].result) = SansTimestamp(calls[q].result)

\* two interleaved calls on the same text returned at different times
C7_Witness ==
    /\ calls[1].pc = "done" /\ calls[2].pc = "done"
    /\ calls[1].text = calls[2].text
    /\ calls[1].text # <<>>
    /\ calls[1].result.meta.parsed_at # calls[2].result.meta.parsed_at
    /\ calls[1].result.skills # <<>>

\* ------------------------------------------------ files and ResumeParser.parse
\* os.path.splitext(filepath)[1].lower()
Ext(path) ==
    CASE path \in {"cv.txt", "uploads/cv.txt", "uploads/b.txt"} -> ".txt"
      [] path = "cv.pdf"  -> ".pdf"
      [] path = "cv.docx" -> ".docx"
      [] path = "cv.md"   -> ".md"
      [] OTHER            -> ""

Exists(path) == path \in DOMAIN files

\* what a function call ends in: a value returned or an exception raised
Return(v) == [ok |-> TRUE, value |-> v]
Raise(exc, msg) == [ok |-> FALSE, exc |-> exc, msg |-> msg]

\* text += (page.extract_text() or "") + "\n", over the pages
RECURSIVE pages_text(_)
pages_text(pages) ==
    IF pages = <<>> THEN <<>> ELSE Head(pages) \o <<NL>> \o pages_text(Tail(pages))

_read_pdf(path) ==
    IF ~PDF_SUPPORT
    THEN Raise("ImportError", "pdfplumber not installed. Run: pip install pdfplumber")
    ELSE IF ~Exists(path) THEN Raise("FileNotFoundError", path)
    ELSE Return(pages_text(files[path].pages))

_read_docx(path) ==
    IF ~DOCX_SUPPORT
    THEN Raise("ImportError", "python-docx not installed. Run: pip install python-docx")
    ELSE IF ~Exists(path) THEN Raise("FileNotFoundError", path)
    ELSE Return(join(files[path].paragraphs))

\* open(filepath, encoding="utf-8", errors="ignore").read()
read_text(path) ==
    IF ~Exists(path) THEN Raise("FileNotFoundError", path)
    ELSE Return(files[path].text)

\* ResumeParser.parse(filepath), called when datetime.now() is `now`
parse(filepath, now) ==
    LET ext  == Ext(filepath)
        read == IF ext = ".pdf" THEN _read_pdf(filepath)
                ELSE IF ext = ".docx" THEN _read_docx(filepath)
                ELSE read_text(filepath)
    IN  IF read.ok THEN Return(parse_text(read.value, now)) ELSE read

\* ----------------------------------- SpecCli: one run of parse_path
CliNames == {"cv.txt", "cv.pdf", "cv.docx", "cv.md"}
CliDir == "resumes"

TextA == <<"John", SP, "Smith", NL, "john@example.com", SP, "9876543210">>
TextB == <<"Education", NL, "B.Tech", SP, "Python", SP, "2020">>

\* the contents a file of each name may have
CliContents(name) ==
    CASE name = "cv.pdf"  -> { [pages |-> <<TextA>>], [pages |-> <<TextA, TextB>>] }
      [] name = "cv.docx" -> { [paragraphs |-> <<TextB>>] }
      [] OTHER            -> { [text |-> TextA], [text |-> TextB] }

\* p.stem + ".json" under out_dir
OutFile(name) == "out/cv.json"

\* list(p.glob("*.pdf")) + list(p.glob("*.docx")) + list(p.glob("*.txt"))
Glob ==
    SelectSeq(<<"cv.pdf", "cv.docx", "cv.txt">>, LAMBDA n : Exists(n))

InitCli ==
    /\ TablesInit
    /\ NLP_SUPPORT = FALSE
    /\ PDF_SUPPORT \in BOOLEAN
    /\ DOCX_SUPPORT \in BOOLEAN
    /\ clock = 0
    /\ text = <<>>
    /\ pc = "input"
    /\ parsed = None
    /\ rec = None
    /\ NoCalls
    /\ reqs = None
    /\ \E present \in SUBSET CliNames :
          files \in [present -> UNION {CliContents(n) : n \in CliNames}]
    /\ \A n \in DOMAIN files : files[n] \in CliContents(n)
    /\ cli = [pc |-> "start", queue |-> <<>>, out_dir |-> None, log |-> <<>>]

\* main(): parse_path(args.input, args.out, args.format); a directory is
\* replaced by the files the three globs find in it
CliStart(path, out_dir) ==
    /\ cli.pc = "start"
    /\ cli' = [cli EXCEPT !.pc = "files",
                          !.queue = IF path = CliDir THEN Glob ELSE <<path>>,
                          !.out_dir = out_dir]
    /\ UNCHANGED <<tables, support, clock, single, calls, files, reqs>>

\* parse_path on one file, after parser.parse(str(p)) ended in `got`: the
\* rest of the try block, or the except clause
AfterParse(name, got) ==
    LET save == got.ok /\ cli.out_dir # None
    IN  /\ cli' = [cli EXCEPT
                     !.queue = Tail(@),
                     !.log = Append(@,
                         IF got.ok
                         THEN [file |-> name, error |-> None, result |-> Some(got.value),
                               saved |-> IF save THEN Some(OutFile(name)) ELSE None]
                         ELSE [file |-> name, error |-> Some(<<got.exc, got.msg>>),
                               result |-> None, saved |-> None])]
        /\ files' = IF save
                    THEN (OutFile(name) :> [json |-> got.value]) @@ files
                    ELSE files

\* parse_path on one file: the try block and its except clause
CliParseFile ==
    /\ cli.pc = "files"
    /\ cli.queue # <<>>
    /\ AfterParse(Head(cli.queue), parse(Head(cli.queue), clock))
    /\ UNCHANGED <<tables, support, clock, single, calls, reqs>>

\* parse_path returns and the process exits
CliExit ==
    /\ cli.pc = "files"
    /\ cli.queue = <<>>
    /\ cli' = [cli EXCEPT !.pc = "exit"]
    /\ UNCHANGED <<tables, support, clock, single, calls, files, reqs>>

NextCli ==
    \/ \E path \in CliNames \cup {CliDir} : \E out_dir \in {None, Some("out")} :
           CliStart(path, out_dir)
    \/ CliParseFile
    \/ CliExit

SpecCli == InitCli /\ [][NextCli]_vars

\* the input-format errors of a file: its extension is not one of the three
\* supported, or it is one whose decoder is not installed
FormatError(name) ==
    \/ Ext(name) \notin {".pdf", ".docx", ".txt"}
    \/ Ext(name) = ".pdf" /\ ~PDF_SUPPORT
    \/ Ext(name) = ".docx" /\ ~DOCX_SUPPORT

\* C6: an existing file with an input-format error ends in a named error of
\* the input-format class and gives no parsed record.
C6_FormatErrorsAreNamed ==
    \A i \in 1..Len(cli.log) :
          (Exists(cli.log[i].file) /\ FormatError(cli.log[i].file)) =>
              /\ cli.log[i].result = None
              /\ cli.log[i].error # None
              /\ \A e \in cli.log[i].error : e[1] = "ImportError"

\* ------------------------- SpecHttp: concurrent requests to POST /parse
Reqs == {1, 2}

UPLOAD_FOLDER == "uploads"
ALLOWED_EXTENSIONS == {"pdf", "docx", "txt"}

\* the file names a client may send, and filename.rsplit('.', 1)[1].lower()
HttpNames == {"cv.txt", "../cv.txt", "b.txt", "cv.exe", ""}

Suffix(filename) ==
    CASE filename \in {"cv.txt", "../cv.txt", "b.txt"} -> Some("txt")
      [] filename = "cv.exe" -> Some("exe")
      [] OTHER -> None

allowed_file(filename) == \E x \in Suffix(filename) : x \in ALLOWED_EXTENSIONS

\* werkzeug's secure_filename: path separators and leading dots are dropped
secure_filename(filename) ==
    CASE filename = "../cv.txt" -> "cv.txt"
      [] OTHER -> filename

\* os.path.join(folder, filename)
path_join(folder, filename) ==
    CASE folder = UPLOAD_FOLDER /\ filename = "cv.txt" -> "uploads/cv.txt"
      [] folder = UPLOAD_FOLDER /\ filename = "b.txt" -> "uploads/b.txt"
      [] folder = "parsed_results" /\ filename = "cv.txt.json" -> "parsed_results/cv.txt.json"
      [] OTHER -> "parsed_results/b.txt.json"

json_name(filename) == IF filename = "cv.txt" THEN "cv.txt.json" ELSE "b.txt.json"

HttpTexts == {TextA, TextB}

\* request.files: no 'resume' part, or one with a file name and a content
Uploads == {None} \cup
    { Some([filename |-> n, content |-> t]) : n \in HttpNames, t \in HttpTexts }

IdleReq == [pc |-> "idle", upload |-> None, filepath |-> "", pending |-> None,
            response |-> None]

Response(status, body) == [status |-> status, body |-> body]

InitHttp ==
    /\ TablesInit
    /\ NLP_SUPPORT = FALSE
    /\ PDF_SUPPORT \in BOOLEAN
    /\ DOCX_SUPPORT \in BOOLEAN
    /\ clock = 0
    /\ text = <<>>
    /\ pc = "input"
    /\ parsed = None
    /\ rec = None
    /\ NoCalls
    /\ files = <<>>
    /\ cli = None
    /\ reqs = [r \in Reqs |-> IdleReq]

\* a client posts a form to /parse
Post(r, upload) ==
    /\ reqs[r].pc = "idle"
    /\ reqs' = [reqs EXCEPT ![r] = [@ EXCEPT !.pc = "recv", !.upload = upload]]
    /\ UNCHANGED <<tables, support, clock, single, calls, files, cli>>

\* parse_resume up to the point file.save has opened its destination: the
\* three 400 answers, the upload path, and the open for writing that
\* creates or truncates the file
Validate(r) ==
    /\ reqs[r].pc = "recv"
    /\ IF reqs[r].upload = None
       THEN /\ reqs' = [reqs EXCEPT ![r] = [@ EXCEPT !.pc = "done",
                   !.response = Some(Response(400, "No file uploaded"))]]
            /\ UNCHANGED files
       ELSE \E u \in reqs[r].upload :
             IF u.filename = ""
             THEN /\ reqs' = [reqs EXCEPT ![r] = [@ EXCEPT !.pc = "done",
                         !.response = Some(Response(400, "No file selected"))]]
                  /\ UNCHANGED files
             ELSE IF ~allowed_file(u.filename)
             THEN /\ reqs' = [reqs EXCEPT ![r] = [@ EXCEPT !.pc = "done",
                         !.response = Some(Response(400,
                             "File type not allowed. Use PDF, DOCX, or TXT"))]]
                  /\ UNCHANGED files
             ELSE LET filepath == path_join(UPLOAD_FOLDER, secure_filename(u.filename))
                  IN  /\ reqs' = [reqs EXCEPT ![r] = [@ EXCEPT !.pc = "save",
                                                      !.filepath = filepath]]
                      /\ files' = (filepath :> [text |-> <<>>]) @@ files
    /\ UNCHANGED <<tables, support, clock, single, calls, cli>>

\* file.save copies the upload into the opened destination and closes it;
\* the writer's handle outlives a removal of the name by another request
SaveWrite(r) ==
    /\ reqs[r].pc = "save"
    /\ \E u \in reqs[r].upload :
          files' = IF Exists(reqs[r].filepath)
                   THEN [files EXCEPT ![reqs[r].filepath] = [text |-> u.content]]
                   ELSE files
    /\ reqs' = [reqs EXCEPT ![r] = [@ EXCEPT !.pc = "parse"]]
    /\ UNCHANGED <<tables, support, clock, single, calls, cli>>

\* the try block after parser.parse(filepath) ended in `got`: the copy of the
\* result under parsed_results and the answer the handler means to send
AfterParserParse(r, result_path, got) ==
    IF got.ok
    THEN /\ files' = (result_path :> [json |-> got.value]) @@ files
         /\ reqs' = [reqs EXCEPT ![r] = [@ EXCEPT !.pc = "finally",
                         !.pending = Some(Response(200, got.value))]]
    ELSE /\ UNCHANGED files
         /\ reqs' = [reqs EXCEPT ![r] = [@ EXCEPT !.pc = "finally",
                         !.pending = Some(Response(500, got.msg))]]

\* the try block and its except clause
Parse(r) ==
    /\ reqs[r].pc = "parse"
    /\ \E u \in reqs[r].upload :
          AfterParserParse(r,
              path_join("parsed_results", json_name(secure_filename(u.filename))),
              parse(reqs[r].filepath, clock))
    /\ UNCHANGED <<tables, support, clock, single, calls, cli>>

\* finally: os.path.exists(filepath); the answer goes out if there is
\* nothing to remove
FinallyExists(r) ==
    /\ reqs[r].pc = "finally"
    /\ reqs' = [reqs EXCEPT ![r] =
                   IF Exists(reqs[r].filepath)
                   THEN [@ EXCEPT !.pc = "remove"]
                   ELSE [@ EXCEPT !.pc = "done", !.response = reqs[r].pending]]
    /\ UNCHANGED <<tables, support, clock, single, calls, files, cli>>

\* finally: os.remove(filepath); its FileNotFoundError leaves the handler
\* and replaces the answer by the server's 500
FinallyRemove(r) ==
    /\ reqs[r].pc = "remove"
    /\ IF Exists(reqs[r].filepath)
       THEN /\ files' = [n \in DOMAIN files \ {reqs[r].filepath} |-> files[n]]
            /\ reqs' = [reqs EXCEPT ![r] = [@ EXCEPT !.pc = "done",
                                                 !.response = reqs[r].pending]]
       ELSE /\ UNCHANGED files
            /\ reqs' = [reqs EXCEPT ![r] = [@ EXCEPT !.pc = "done",
                            !.response = Some(Response(500, "Internal Server Error"))]]
    /\ UNCHANGED <<tables, support, clock, single, calls, cli>>

NextHttp ==
    \/ \E r \in Reqs : \E upload \in Uploads : Post(r, upload)
    \/ \E r \in Reqs : Validate(r)
    \/ \E r \in Reqs : SaveWrite(r)
    \/ \E r \in Reqs : Parse(r)
    \/ \E r \in Reqs : FinallyExists(r)
    \/ \E r \in Reqs : FinallyRemove(r)

SpecHttp == InitHttp /\ [][NextHttp]_vars

\* C10: whatever else the server is handling, a request whose upload passes
\* the three checks is answered 200 with the record parsed from its own
\* content.
C10_UploadIsolation ==
    \A r \in Reqs :
        reqs[r].pc = "done" =>
            \A u \in reqs[r].upload :
                (u.filename # "" /\ allowed_file(u.filename)) =>
                    \A a \in reqs[r].response :
                        /\ a.status = 200
                        /\ SansTimestamp(a.body) = SansTimestamp(parse_text(u.content, 0))

====
